---- MODULE Spec2Model ----
(***************************************************************************)
(* va-call-trainer: the voice-turn pipeline (POST /api/voice-turn) and the  *)
(* recording state machine of the training page (TrainPage).                *)
(*                                                                         *)
(* Conventions.  A JavaScript value that may be null is a sequence of       *)
(* length 0 (null) or 1 (<<value>>).  A text that the code trims is a       *)
(* sequence of characters; an opaque string (a message, a clinic name) is   *)
(* a TLA+ string.  A serialized JSON text is a sequence of tokens.          *)
(***************************************************************************)
EXTENDS Integers, Sequences, FiniteSets, Bags, TLC

\* ------------------------------------------------------------------ bounds

\* Longest turn history a request posted directly to the endpoint carries.
MaxHist == 2
\* Begin-capture events (accepted by the busy guard) in one training session.
MaxCaptures == 2

\* ------------------------------------------------------------ values

Null == <<>>
Some(x) == <<x>>
IsNull(v) == Len(v) = 0

Role == {"staff", "patient"}

IsSpace(c) == c = " "

\* What the transcription service and the chat service may answer with.
RawTexts == {<<" ">>, <<"a">>, <<" ", "a", " ">>}

\* String.prototype.trim: leading and trailing whitespace removed.
RECURSIVE TrimLeft(_)
TrimLeft(s) ==
  IF s = <<>> THEN <<>>
  ELSE IF IsSpace(Head(s)) THEN TrimLeft(Tail(s)) ELSE s

RECURSIVE TrimRight(_)
TrimRight(s) ==
  IF s = <<>> THEN <<>>
  ELSE IF IsSpace(s[Len(s)]) THEN TrimRight(SubSeq(s, 1, Len(s) - 1)) ELSE s

Trim(s) == TrimRight(TrimLeft(s))

\* "Okay, go ahead."
Filler == <<"O", "k", "a", "y", ",", " ", "g", "o", " ", "a", "h", "e", "a", "d", ".">>

\* Texts a turn of a posted history may hold.
HistTexts == {<<>>, <<"a">>}

Turn == [role : Role, text : HistTexts]

RECURSIVE SeqsUpTo(_, _)
SeqsUpTo(S, n) ==
  IF n = 0 THEN {<<>>}
  ELSE LET shorter == SeqsUpTo(S, n - 1)
       IN  shorter \cup {Append(s, x) : s \in {t \in shorter : Len(t) = n - 1}, x \in S}

Histories == SeqsUpTo(Turn, MaxHist)

\* ClinicConfig (types/config.ts): the name, doctor, address and hours are
\* opaque strings, the cost a number, the services three flags.
ClinicServices == [decompression : BOOLEAN, classIVLaser : BOOLEAN, shockwave : BOOLEAN]

ClinicConfig ==
  [clinicName : {"Clinic"}, doctorName : {"DrA"}, firstVisitCost : {0, 75},
   address : {"Addr"}, officeHours : {"Hours"}, services : ClinicServices]

\* The mode identifiers of the training page, and other values a request may carry.
ModeId == {"easy", "challenging", "skeptical", "creepy"}
ModeValues == {"", "easy", "skeptical", "foo"}

\* ------------------------------------------------- JSON.stringify / JSON.parse

\* A JSON text is a sequence of tokens: brackets, keywords, field values and,
\* between quote tokens, the characters of a string.
Quote == "\""

BoolTok(b) == IF b THEN "true" ELSE "false"

\* Number -> its decimal text (template literal, JSON.stringify).
NumTok(n) == IF n = 0 THEN "0" ELSE IF n = 75 THEN "75" ELSE "NaN"

StringifyTurn(t) == <<"{", t.role, Quote>> \o t.text \o <<Quote, "}">>

RECURSIVE StringifyTurnList(_)
StringifyTurnList(ts) ==
  IF ts = <<>> THEN <<>> ELSE StringifyTurn(Head(ts)) \o StringifyTurnList(Tail(ts))

\* JSON.stringify(turns)
StringifyTurns(ts) == <<"[">> \o StringifyTurnList(ts) \o <<"]">>

\* JSON.stringify(clinic)
StringifyClinic(c) ==
  <<"{", c.clinicName, c.doctorName, NumTok(c.firstVisitCost), c.address,
    c.officeHours, BoolTok(c.services.decompression),
    BoolTok(c.services.classIVLaser), BoolTok(c.services.shockwave), "}">>

\* Index of the first quote token of toks at or after position i (0: none).
RECURSIVE QuoteAt(_, _)
QuoteAt(toks, i) ==
  IF i > Len(toks) THEN 0
  ELSE IF toks[i] = Quote THEN i ELSE QuoteAt(toks, i + 1)

\* The objects of an array body: [ok, val].
RECURSIVE ParseTurnList(_)
ParseTurnList(toks) ==
  IF toks = <<>> THEN [ok |-> TRUE, val |-> <<>>]
  ELSE IF Len(toks) < 5 \/ toks[1] # "{" \/ toks[2] \notin Role \/ toks[3] # Quote
    THEN [ok |-> FALSE, val |-> <<>>]
  ELSE LET close == QuoteAt(toks, 4)
       IN  IF close = 0 \/ close + 1 > Len(toks) \/ toks[close + 1] # "}"
             THEN [ok |-> FALSE, val |-> <<>>]
           ELSE LET rest == ParseTurnList(SubSeq(toks, close + 2, Len(toks)))
                    t == [role |-> toks[2], text |-> SubSeq(toks, 4, close - 1)]
                IN  [ok |-> rest.ok, val |-> IF rest.ok THEN <<t>> \o rest.val ELSE <<>>]

\* JSON.parse(turnsJson): kind "error" (SyntaxError thrown), "null" or "array".
ParseTurns(toks) ==
  IF toks = <<"null">> THEN [kind |-> "null", val |-> <<>>]
  ELSE IF Len(toks) < 2 \/ toks[1] # "[" \/ toks[Len(toks)] # "]"
    THEN [kind |-> "error", val |-> <<>>]
  ELSE LET items == ParseTurnList(SubSeq(toks, 2, Len(toks) - 1))
       IN  IF items.ok THEN [kind |-> "array", val |-> items.val]
           ELSE [kind |-> "error", val |-> <<>>]

\* JSON.parse(clinicJson): kind "error", "null" or "object" (val: <<config>>).
ParseClinic(toks) ==
  IF toks = <<"null">> THEN [kind |-> "null", val |-> Null]
  ELSE IF Len(toks) # 10 \/ toks[1] # "{" \/ toks[10] # "}"
          \/ toks[4] \notin {"0", "75"}
          \/ \E i \in 7..9 : toks[i] \notin {"true", "false"}
    THEN [kind |-> "error", val |-> Null]
  ELSE [kind |-> "object",
        val |-> Some([clinicName |-> toks[2], doctorName |-> toks[3],
                      firstVisitCost |-> IF toks[4] = "0" THEN 0 ELSE 75,
                      address |-> toks[5], officeHours |-> toks[6],
                      services |-> [decompression |-> toks[7] = "true",
                                    classIVLaser |-> toks[8] = "true",
                                    shockwave |-> toks[9] = "true"]])]

\* A text that JSON.parse rejects (a truncated document).
InvalidJson == <<"{">>
NullJson == <<"null">>

\* ------------------------------------------------------------ state

VARIABLES
  reqs,             \* the requests to /api/voice-turn in flight, a bag
  clinic,           \* TrainPage state: ClinicConfig | null
  turns,            \* TrainPage state: Turn[]
  transcript,       \* TrainPage state: the transcript text, a sequence of lines
  isRecording,      \* TrainPage state
  isBusy,           \* TrainPage state
  error,            \* TrainPage state: string | null
  mediaRecorderRef, \* the recorder the page holds (0: null)
  chunksRef,        \* the buffered audio chunks
  recorders,        \* the MediaRecorder objects created so far: id -> recorder
  acquiring,        \* getUserMedia calls awaiting their result
  playing,          \* sendTurnToBackend invocations awaiting audio.play()
  route,            \* the page the router shows
  micSupported,     \* navigator.mediaDevices is there
  searchMode,       \* the "mode" search parameter of the page's URL (null: none)
  captures,         \* begin-capture events accepted so far
  successes,        \* pipeline invocations that ended in success so far
  answers,          \* what the services answered to the request posted directly
  refusedStart,     \* the last step was a begin-capture that the busy guard refused
  held              \* the user holds the mic button down (pressed, not yet released)

clientVars == <<clinic, turns, transcript, isRecording, isBusy, error,
                mediaRecorderRef, chunksRef, recorders, acquiring, playing, route,
                micSupported, searchMode, captures, successes>>
vars == <<reqs, clinic, turns, transcript, isRecording, isBusy, error,
          mediaRecorderRef, chunksRef, recorders, acquiring, playing, route,
          micSupported, searchMode, captures, successes, answers, refusedStart,
          held>>

\* ------------------------------------------------------------ route.ts

\* The prompt with the shockwave phrase written before the other two.
buildPatientSystemPromptShockwaveFirst(c, mode) ==
  <<"You are simulating a new patient calling a chiropractic office.",
    "- Name: ", c.clinicName,
    "- Doctor: ", c.doctorName,
    "- First visit cost: $", NumTok(c.firstVisitCost),
    "- Address: ", c.address,
    "- Office hours: ", c.officeHours,
    "- Services: chiropractic">>
  \o (IF c.services.shockwave THEN <<", shockwave">> ELSE <<>>)
  \o (IF c.services.decompression THEN <<", decompression">> ELSE <<>>)
  \o (IF c.services.classIVLaser THEN <<", Class IV laser">> ELSE <<>>)
  \o <<"Mode: ", mode, "Rules:">>

\* buildPatientSystemPrompt: the template literal, as the sequence of its parts.
buildPatientSystemPrompt(c, mode) ==
  <<"You are simulating a new patient calling a chiropractic office.",
    "- Name: ", c.clinicName,
    "- Doctor: ", c.doctorName,
    "- First visit cost: $", NumTok(c.firstVisitCost),
    "- Address: ", c.address,
    "- Office hours: ", c.officeHours,
    "- Services: chiropractic">>
  \o (IF c.services.decompression THEN <<", decompression">> ELSE <<>>)
  \o (IF c.services.classIVLaser THEN <<", Class IV laser">> ELSE <<>>)
  \o (IF c.services.shockwave THEN <<", shockwave">> ELSE <<>>)
  \o <<"Mode: ", mode, "Rules:">>

\* A multipart form: each field null (absent) or <<value>>.
Form(audio, mode, clinicJson, turnsJson) ==
  [audio |-> audio, mode |-> mode, clinicConfig |-> clinicJson, turns |-> turnsJson]

\* The text of a field as JSON.parse reads it: null is read as the text "null".
FieldText(field) == IF IsNull(field) THEN <<"null">> ELSE field[1]

\* !x for a form field holding a string: absent or the empty string.
Falsy(field) == IsNull(field) \/ field[1] = <<>>

\* (form.get("mode") as string) || "easy"
ModeOf(form) ==
  IF IsNull(form.mode) \/ form.mode[1] = "" THEN "easy" ELSE form.mode[1]

\* The check of the required fields with only the audio looked at.
MissingFieldsAudioOnly(form) == IsNull(form.audio)

\* !audioFile || !clinicJson || !turnsJson  (a File object is never falsy)
MissingFields(form) ==
  IsNull(form.audio) \/ Falsy(form.clinicConfig) \/ Falsy(form.turns)

\* NextResponse.json(body, {status}): the fields a body lacks are null.
Response(status, err, staffText, patientText, audioBase64, finalTurns) ==
  [status |-> status, error |-> err, staffText |-> staffText,
   patientText |-> patientText, audioBase64 |-> audioBase64, turns |-> finalTurns]

MissingResponse ==
  Response(400, Some("Missing audio, clinicConfig, or turns"), Null, Null, Null, Null)

\* A catch block that reports the stage that threw.
CatchResponseNamingStage(stage, thrown) ==
  [status |-> 500, error |-> Some(stage), staffText |-> Null, patientText |-> Null,
   audioBase64 |-> Null, turns |-> Null]

\* The catch block, entered with what was thrown and the stage it was thrown in.
CatchResponse(stage, thrown) ==
  Response(500, Some("Server error"), Null, Null, Null, Null)

\* Buffer.toString("base64"): the text encoding of the bytes.
Base64(bytes) == [b64 |-> bytes]

SuccessResponse(staffText, patientText, bytes, finalTurns) ==
  Response(200, Null, Some(staffText), Some(patientText), Some(Base64(bytes)),
           Some(finalTurns))

\* The staff turn alone, the history it continues left out.
UpdatedTurnsWithoutHistory(ts, staffText) == <<[role |-> "staff", text |-> staffText]>>

\* [...turns, { role: "staff", text: staffText }]
UpdatedTurns(ts, staffText) == Append(ts, [role |-> "staff", text |-> staffText])

\* The turns returned without the reply appended.
FinalTurnsWithoutReply(updated, patientText) == updated

\* [...updatedTurns, { role: "patient", text: patientText }]
FinalTurns(updated, patientText) ==
  Append(updated, [role |-> "patient", text |-> patientText])

\* The reply with the fallback for a missing content only: ?.trim() ?? filler
PatientTextOrEmpty(choices) ==
  IF choices = <<>> \/ IsNull(choices[1].content) THEN Filler
  ELSE Trim(choices[1].content[1])

\* chat.choices[0]?.message?.content?.trim() || "Okay, go ahead."
PatientText(choices) ==
  IF choices = <<>> \/ IsNull(choices[1].content) THEN Filler
  ELSE IF Trim(choices[1].content[1]) = <<>> THEN Filler
  ELSE Trim(choices[1].content[1])

\* The messages of the chat request: the system prompt, then the turns.
RECURSIVE TurnMessages(_)
TurnMessages(ts) ==
  IF ts = <<>> THEN <<>>
  ELSE <<[role |-> IF Head(ts).role = "staff" THEN "user" ELSE "assistant",
          content |-> Head(ts).text]>> \o TurnMessages(Tail(ts))

\* The system prompt and the new staff turn only, the earlier turns left out.
MessagesLatestTurnOnly(systemPrompt, updated) ==
  <<[role |-> "system", content |-> systemPrompt],
    [role |-> "user", content |-> updated[Len(updated)].text]>>

Messages(systemPrompt, updated) ==
  <<[role |-> "system", content |-> systemPrompt]>> \o TurnMessages(updated)

\* One call of an external service, as the call log keeps it.
Call(svc, audio, messages, input) ==
  [svc |-> svc, audio |-> audio, messages |-> messages, input |-> input]

\* What the three services may answer.
\* An answer has a field for each service; a call that throws has ok FALSE.
Answer(svc, ok, text, choices, bytes) ==
  [svc |-> svc, ok |-> ok, text |-> text, choices |-> choices, bytes |-> bytes]
SttOutcomes ==
  {Answer("transcription", FALSE, <<>>, <<>>, <<>>)}
  \cup {Answer("transcription", TRUE, t, <<>>, <<>>) : t \in RawTexts}
ChatChoices ==
  {<<>>, <<[content |-> Null]>>}
  \cup {<<[content |-> Some(t)]>> : t \in RawTexts \cup {<<>>}}
ChatOutcomes ==
  {Answer("chat", FALSE, <<>>, <<>>, <<>>)}
  \cup {Answer("chat", TRUE, <<>>, c, <<>>) : c \in ChatChoices}
TtsOutcomes ==
  {Answer("speech", FALSE, <<>>, <<>>, <<>>)}
  \cup {Answer("speech", TRUE, <<>>, <<>>, b) : b \in {<<>>, <<1, 2>>}}

\* A request as the endpoint holds it: the form, the handler's position and locals,
\* the calls made so far, the response once there is one.
NewRequest(form, clientTurns) ==
  [form |-> form, stage |-> "sent", staffText |-> Null, patientText |-> Null,
   log |-> <<>>, resp |-> Null, clientTurns |-> clientTurns]

Respond(r, resp) == [r EXCEPT !.stage = "done", !.resp = Some(resp)]

\* POST, lines 40-61: read the form, check it, parse it, call the transcription.
PostReceive(r) ==
  IF MissingFields(r.form) THEN Respond(r, MissingResponse)
  ELSE IF ParseClinic(FieldText(r.form.clinicConfig)).kind = "error"
    THEN Respond(r, CatchResponse("parse", "SyntaxError"))
  ELSE IF ParseTurns(FieldText(r.form.turns)).kind = "error"
    THEN Respond(r, CatchResponse("parse", "SyntaxError"))
  ELSE [r EXCEPT !.stage = "stt",
                 !.log = Append(@, Call("transcription", r.form.audio, <<>>, <<>>))]

\* POST, lines 58-82: the transcription answered; build the chat request and send it.
PostTranscribed(r, out) ==
  IF ~out.ok THEN Respond(r, CatchResponse("stt", "service"))
  ELSE IF ParseTurns(FieldText(r.form.turns)).kind # "array"
    THEN Respond(r, CatchResponse("stt", "TypeError"))
  ELSE IF ParseClinic(FieldText(r.form.clinicConfig)).kind # "object"
    THEN Respond(r, CatchResponse("stt", "TypeError"))
  ELSE LET staffText == Trim(out.text)
           updatedTurns == UpdatedTurns(ParseTurns(FieldText(r.form.turns)).val, staffText)
           systemPrompt ==
             buildPatientSystemPrompt(ParseClinic(FieldText(r.form.clinicConfig)).val[1],
                                      ModeOf(r.form))
       IN  [r EXCEPT !.stage = "chat", !.staffText = Some(staffText),
                     !.log = Append(@, Call("chat", <<>>,
                                            Messages(systemPrompt, updatedTurns), <<>>))]

\* POST, lines 78-98: the chat answered; take the reply and call the synthesis.
PostReplied(r, out) ==
  IF ~out.ok THEN Respond(r, CatchResponse("chat", "service"))
  ELSE LET patientText == PatientText(out.choices)
       IN  [r EXCEPT !.stage = "tts", !.patientText = Some(patientText),
                     !.log = Append(@, Call("speech", <<>>, <<>>, patientText))]

\* POST, lines 93-108: the synthesis answered; encode the audio and respond.
PostSynthesized(r, out) ==
  IF ~out.ok THEN Respond(r, CatchResponse("tts", "service"))
  ELSE LET updatedTurns ==
             UpdatedTurns(ParseTurns(FieldText(r.form.turns)).val, r.staffText[1])
       IN  Respond(r, SuccessResponse(r.staffText[1], r.patientText[1], out.bytes,
                                      FinalTurns(updatedTurns, r.patientText[1])))

\* The requests in flight are a bag: two requests in the same state are one
\* element with two copies.
One(r) == SetToBag({r})
InFlight == BagToSet(reqs)
Replace(r, q) == (reqs (-) One(r)) (+) One(q)

ServerReceive(r) ==
  /\ r.stage = "sent"
  /\ reqs' = Replace(r, PostReceive(r))

TranscriptionReturns(r, out) ==
  /\ r.stage = "stt"
  /\ reqs' = Replace(r, PostTranscribed(r, out))

ChatReturns(r, out) ==
  /\ r.stage = "chat"
  /\ reqs' = Replace(r, PostReplied(r, out))

SpeechReturns(r, out) ==
  /\ r.stage = "tts"
  /\ reqs' = Replace(r, PostSynthesized(r, out))

\* ------------------------------------------------------------ TrainPage

\* Keys MODE_LABELS[rawMode] finds: its own four, and those of Object.prototype.
ModeLabelKeys == ModeId \cup {"constructor"}

\* const rawMode = searchParams.get("mode") || "easy";
\* const mode = MODE_LABELS[rawMode] ? rawMode : "easy";
PageMode(param) ==
  LET rawMode == IF IsNull(param) \/ param[1] = "" THEN "easy" ELSE param[1]
  IN  IF rawMode \in ModeLabelKeys THEN rawMode ELSE "easy"

\* The mount effect: clinic stays null unless localStorage holds a parseable text.
LoadClinic(stored) ==
  IF Falsy(stored) THEN Null
  ELSE IF ParseClinic(stored[1]).kind = "object" THEN ParseClinic(stored[1]).val
  ELSE Null

\* rebuildTranscript: one "VA: text" / "Patient: text" line per turn, joined by "\n".
TranscriptLine(t) == <<IF t.role = "staff" THEN "VA" ELSE "Patient", ": ">> \o t.text

RECURSIVE rebuildTranscript(_)
rebuildTranscript(updated) ==
  IF updated = <<>> THEN <<>>
  ELSE IF Len(updated) = 1 THEN TranscriptLine(updated[1])
  ELSE TranscriptLine(updated[1]) \o <<"\n">> \o rebuildTranscript(Tail(updated))

\* The error messages of the page.
ErrNoClinic == "Clinic setup is missing. Go back and fill out Setup first."
ErrNoMic == "This browser does not support microphone recording."
ErrMicAccess == "Could not access microphone. Check browser permissions."
ErrServer == "Server error from /api/voice-turn."
ErrNetwork == "Network error while talking to /api/voice-turn."

\* The closure of the first render, made before the mount effect set clinic.
ClosureBeforeMount == [clinic |-> Null, turns |-> <<>>, mode |-> PageMode(searchMode)]

\* What the functions of one render close over.
Closure == [clinic |-> clinic, turns |-> turns, mode |-> PageMode(searchMode)]

\* new MediaRecorder(stream), started; onstop keeps the closure of the render
\* that ran ensureRecorderAndStart.
NewRecorder(closure) == [state |-> "recording", stopTasks |-> 0, closure |-> closure]

RemoveAt(s, i) == SubSeq(s, 1, i - 1) \o SubSeq(s, i + 1, Len(s))

\* A handler with no busy guard.
StartRefusedNever == FALSE

\* handleStartTalking, line 173: the busy guard.
StartRefused == isBusy

\* A page that starts capture without a clinic configuration.
ClinicMissingNever(c) == FALSE

\* ensureRecorderAndStart, line 63: !clinic
ClinicMissing(c) == IsNull(c)

\* A page that calls getUserMedia without looking for navigator.mediaDevices.
MicUnavailableNever == FALSE

\* ensureRecorderAndStart, line 70: typeof navigator === "undefined" || !navigator.mediaDevices
MicUnavailable == ~micSupported

\* ensureRecorderAndStart, lines 60-87: up to the await of getUserMedia.
ensureRecorderAndStart ==
  /\ captures' = captures + 1
  /\ IF ClinicMissing(clinic) THEN
       /\ error' = Some(ErrNoClinic)
       /\ route' = "setup"
       /\ refusedStart' = FALSE
       /\ UNCHANGED <<chunksRef, recorders, isRecording, acquiring>>
     ELSE IF MicUnavailable THEN
       /\ error' = Some(ErrNoMic)
       /\ refusedStart' = FALSE
       /\ UNCHANGED <<route, chunksRef, recorders, isRecording, acquiring>>
     ELSE IF mediaRecorderRef # 0 THEN
       /\ error' = Null
       /\ chunksRef' = <<>>
       /\ IF recorders[mediaRecorderRef].state = "inactive"
            THEN /\ recorders' = [recorders EXCEPT ![mediaRecorderRef].state = "recording"]
                 /\ isRecording' = TRUE
                 /\ refusedStart' = FALSE
            ELSE \* start() throws InvalidStateError: the async function rejects
                 /\ refusedStart' = FALSE
                 /\ UNCHANGED <<recorders, isRecording>>
       /\ UNCHANGED <<route, acquiring>>
     ELSE
       /\ error' = Null
       /\ acquiring' = Append(acquiring, Closure)
       /\ refusedStart' = FALSE
       /\ UNCHANGED <<route, chunksRef, recorders, isRecording>>
  /\ UNCHANGED <<reqs, clinic, turns, transcript, isBusy, mediaRecorderRef, playing,
                 micSupported, searchMode, successes, answers>>
  /\ held' = TRUE

\* handleStartTalking (mousedown / touchstart on the mic button).
handleStartTalking ==
  /\ route = "train"
  /\ IF StartRefused
       THEN /\ refusedStart' = TRUE
            /\ UNCHANGED <<reqs, clientVars, answers, held>>
       ELSE /\ captures < MaxCaptures
            /\ ensureRecorderAndStart

\* ensureRecorderAndStart, lines 85-106: getUserMedia resolved.
AcquireResolves ==
  \E i \in 1..Len(acquiring) :
    /\ recorders' = Append(recorders, NewRecorder(acquiring[i]))
    /\ mediaRecorderRef' = Len(recorders) + 1
    /\ chunksRef' = <<>>
    /\ isRecording' = TRUE
    /\ acquiring' = RemoveAt(acquiring, i)
    /\ refusedStart' = FALSE
    /\ UNCHANGED <<reqs, clinic, turns, transcript, isBusy, error, playing, route,
                   micSupported, searchMode, captures, successes, answers>>
    /\ UNCHANGED held

\* ensureRecorderAndStart, lines 107-113: getUserMedia rejected.
AcquireRejects ==
  \E i \in 1..Len(acquiring) :
    /\ error' = Some(ErrMicAccess)
    /\ acquiring' = RemoveAt(acquiring, i)
    /\ refusedStart' = FALSE
    /\ UNCHANGED <<reqs, clinic, turns, transcript, isRecording, isBusy,
                   mediaRecorderRef, chunksRef, recorders, playing, route,
                   micSupported, searchMode, captures, successes, answers>>
    /\ UNCHANGED held

\* handleStopTalking (mouseup / touchend / mouseleave on the mic button).
handleStopTalking ==
  /\ route = "train"
  /\ isRecording' = FALSE
  /\ IF mediaRecorderRef # 0 /\ recorders[mediaRecorderRef].state # "inactive"
       THEN /\ recorders' = [recorders EXCEPT ![mediaRecorderRef].state = "inactive",
                                              ![mediaRecorderRef].stopTasks = @ + 1]
            /\ refusedStart' = FALSE
       ELSE /\ refusedStart' = FALSE
            /\ UNCHANGED recorders
  /\ UNCHANGED <<reqs, clinic, turns, transcript, isBusy, error, mediaRecorderRef,
                 chunksRef, acquiring, playing, route, micSupported, searchMode,
                 captures, successes, answers>>
  /\ held' = FALSE

\* sendTurnToBackend, lines 123-132: the form of the request.
TurnForm(audioBlob, closure) ==
  Form(Some(audioBlob), Some(closure.mode), Some(StringifyClinic(closure.clinic[1])),
       Some(StringifyTurns(closure.turns)))

\* The sizes of the data a dataavailable event may carry.
ChunkSizes == {1}

\* The recorder's stop task: ondataavailable, then onstop, which runs
\* sendTurnToBackend (lines 116-132) up to the await of fetch.
RecorderStops ==
  \E r \in 1..Len(recorders), size \in ChunkSizes :
    /\ recorders[r].stopTasks > 0
    /\ recorders' = [recorders EXCEPT ![r].stopTasks = @ - 1]
    /\ chunksRef' = <<>>
    /\ LET blob == IF size > 0 THEN Append(chunksRef, r) ELSE chunksRef
           closure == recorders[r].closure
       IN  IF IsNull(closure.clinic)
             THEN /\ refusedStart' = FALSE
                  /\ UNCHANGED <<reqs, isBusy, error>>
             ELSE /\ isBusy' = TRUE
                  /\ error' = Null
                  /\ reqs' = reqs (+) One(NewRequest(TurnForm(blob, closure), turns))
                  /\ refusedStart' = FALSE
    /\ UNCHANGED <<clinic, turns, transcript, isRecording, mediaRecorderRef,
                   acquiring, playing, route, micSupported, searchMode, captures,
                   successes, answers>>
    /\ UNCHANGED held

\* A failure that returns without clearing the busy flag (no finally block).
CallFailedStayingBusy(message) ==
  [turns |-> turns, transcript |-> transcript, error |-> Some(message), isBusy |-> isBusy]

\* A failure that leaves the staff turn of the failed call in the history.
CallFailedKeepingTurn(message) ==
  [turns |-> Append(turns, [role |-> "staff", text |-> <<>>]),
   transcript |-> transcript, error |-> Some(message), isBusy |-> FALSE]

\* sendTurnToBackend, lines 163-168: the catch block and the finally block.
\* What a failed call leaves: [turns, transcript, error, isBusy].
CallFailed(message) ==
  [turns |-> turns, transcript |-> transcript, error |-> Some(message), isBusy |-> FALSE]

\* sendTurnToBackend, lines 141-150: res.json(), setTurns, rebuildTranscript.
CallSucceeded(body) ==
  LET data == ParseTurns(StringifyTurns(body.turns[1])).val
  IN  [turns |-> data, transcript |-> rebuildTranscript(data)]

\* res.ok: a status in 200..299.
ResOk(resp) == resp.status >= 200 /\ resp.status <= 299

\* fetch rejects (a network error), whatever the endpoint has done by then.
FetchRejects ==
  \E r \in InFlight :
    /\ LET after == CallFailed(ErrNetwork)
       IN  /\ turns' = after.turns
           /\ transcript' = after.transcript
           /\ error' = after.error
           /\ isBusy' = after.isBusy
    /\ reqs' = reqs (-) One(r)
    /\ refusedStart' = FALSE
    /\ UNCHANGED <<clinic, isRecording, mediaRecorderRef, chunksRef, recorders,
                   acquiring, playing, route, micSupported, searchMode, captures,
                   successes, answers>>
    /\ UNCHANGED held

\* The response arrived with a status that is not ok, or reading its body threw.
ResponseFails ==
  \E r \in InFlight, bodyRead \in BOOLEAN :
    /\ r.stage = "done"
    /\ ~ResOk(r.resp[1]) \/ ~bodyRead
    /\ reqs' = reqs (-) One(r)
    /\ LET after == CallFailed(IF bodyRead THEN ErrServer ELSE ErrNetwork)
       IN  /\ turns' = after.turns
           /\ transcript' = after.transcript
           /\ error' = after.error
           /\ isBusy' = after.isBusy
    /\ refusedStart' = FALSE
    /\ UNCHANGED <<clinic, isRecording, mediaRecorderRef, chunksRef, recorders,
                   acquiring, playing, route, micSupported, searchMode, captures,
                   successes, answers>>
    /\ UNCHANGED held

\* The response arrived with an ok status and its body was read: the page takes
\* the turns and plays the audio, if there is any.
ResponseSucceeds ==
  \E r \in InFlight :
    /\ r.stage = "done"
    /\ ResOk(r.resp[1])
    /\ reqs' = reqs (-) One(r)
    /\ LET after == CallSucceeded(r.resp[1])
       IN  /\ turns' = after.turns
           /\ transcript' = after.transcript
    /\ successes' = successes + 1
    /\ IF r.resp[1].audioBase64[1].b64 # <<>>
         THEN \* await audio.play()
              /\ playing' = playing + 1
              /\ UNCHANGED isBusy
         ELSE /\ isBusy' = FALSE
              /\ UNCHANGED playing
    /\ refusedStart' = FALSE
    /\ UNCHANGED <<clinic, isRecording, error, mediaRecorderRef, chunksRef,
                   recorders, acquiring, route, micSupported, searchMode, captures,
                   answers>>
    /\ UNCHANGED held

\* audio.play() resolved or rejected (the rejection is caught and logged): finally.
PlaybackSettles ==
    /\ playing > 0
    /\ playing' = playing - 1
    /\ isBusy' = FALSE
    /\ refusedStart' = FALSE
    /\ UNCHANGED <<reqs, clinic, turns, transcript, isRecording, error,
                   mediaRecorderRef, chunksRef, recorders, acquiring, route,
                   micSupported, searchMode, captures, successes, answers>>
    /\ UNCHANGED held

\* What the transcription and the chat service answer within a training session:
\* a failure, or one of these texts.
SessionSttTexts == {<<" ">>, <<" ", "a", " ">>}
SessionChatTexts == {<<" ", "a", " ">>}
SessionSttOutcomes == {out \in SttOutcomes : ~out.ok \/ out.text \in SessionSttTexts}
SessionChatOutcomes ==
  {out \in ChatOutcomes :
     ~out.ok \/ out.choices \in {<<[content |-> Some(t)]>> : t \in SessionChatTexts}}

\* The endpoint's steps on the requests of the page.
Server ==
  \E r \in InFlight :
    /\ \/ ServerReceive(r)
       \/ \E out \in SessionSttOutcomes : TranscriptionReturns(r, out)
       \/ \E out \in SessionChatOutcomes : ChatReturns(r, out)
       \/ \E out \in TtsOutcomes : SpeechReturns(r, out)
    /\ refusedStart' = FALSE
    /\ UNCHANGED <<clientVars, answers>>
    /\ UNCHANGED held

\* The clinic configuration the setup page may have stored.
StoredClinic == [clinicName |-> "Clinic", doctorName |-> "DrA", firstVisitCost |-> 75,
                 address |-> "Addr", officeHours |-> "Hours",
                 services |-> [decompression |-> TRUE, classIVLaser |-> FALSE,
                               shockwave |-> FALSE]]

Init ==
  /\ reqs = EmptyBag
  /\ \E stored \in {Null, Some(InvalidJson), Some(StringifyClinic(StoredClinic))} :
       clinic = LoadClinic(stored)
  /\ turns = <<>>
  /\ transcript = <<>>
  /\ isRecording = FALSE
  /\ isBusy = FALSE
  /\ error = Null
  /\ mediaRecorderRef = 0
  /\ chunksRef = <<>>
  /\ recorders = <<>>
  /\ acquiring = <<>>
  /\ playing = 0
  /\ route = "train"
  /\ micSupported \in BOOLEAN
  /\ searchMode = Some("foo")
  /\ captures = 0
  /\ successes = 0
  /\ answers = <<>>
  /\ refusedStart = FALSE
  /\ held = FALSE

Next ==
  \/ handleStartTalking
  \/ handleStopTalking
  \/ AcquireResolves
  \/ AcquireRejects
  \/ RecorderStops
  \/ Server
  \/ FetchRejects
  \/ ResponseFails
  \/ ResponseSucceeds
  \/ PlaybackSettles

\* One training session against the endpoint.
Spec == Init /\ [][Next]_vars

\* The promise fetch returned settles: it rejects, or the response arrives.
FetchSettles == FetchRejects \/ ResponseFails \/ ResponseSucceeds

\* A session in which every fetch and every audio.play() settles in the end.
SpecLive == Spec /\ WF_vars(FetchSettles) /\ WF_vars(PlaybackSettles)

\* ------------------------------------------- a session at the user's pace

\* Nothing the page has started is still to run: no getUserMedia call, no stop
\* task, no request, no playback.
Settled ==
  /\ acquiring = <<>>
  /\ \A r \in 1..Len(recorders) : recorders[r].stopTasks = 0
  /\ reqs = EmptyBag
  /\ playing = 0

\* The user presses the mic button while it is enabled and nothing is pending.
PacedStart == ~isBusy /\ ~isRecording /\ Settled /\ handleStartTalking

\* The user releases the mic button they hold.
PacedStop == isRecording /\ handleStopTalking

NextPaced ==
  \/ PacedStart
  \/ PacedStop
  \/ AcquireResolves
  \/ AcquireRejects
  \/ RecorderStops
  \/ Server
  \/ FetchRejects
  \/ ResponseFails
  \/ ResponseSucceeds
  \/ PlaybackSettles

\* One training session in which every press waits for the previous exchange to
\* be over and every release follows a press.
SpecPaced == Init /\ [][NextPaced]_vars

\* ------------------------------------------------- the endpoint on its own

\* The endpoint's steps on the request posted directly, with the services'
\* answers kept.
ServerTraced ==
  \E r \in InFlight :
    /\ \/ ServerReceive(r) /\ UNCHANGED answers
       \/ \E out \in SttOutcomes :
            TranscriptionReturns(r, out) /\ answers' = Append(answers, out)
       \/ \E out \in ChatOutcomes :
            ChatReturns(r, out) /\ answers' = Append(answers, out)
       \/ \E out \in TtsOutcomes :
            SpeechReturns(r, out) /\ answers' = Append(answers, out)
    /\ refusedStart' = FALSE
    /\ UNCHANGED clientVars
    /\ UNCHANGED held

\* The values of the fields of a posted form.
AudioFields == {Null, Some(<<1>>)}
ModeFields == {Null} \cup {Some(x) : x \in ModeValues}
ClinicFields ==
  {Null, Some(<<>>), Some(InvalidJson), Some(NullJson)}
  \cup {Some(StringifyClinic(x)) : x \in ClinicConfig}
TurnsFields(h) == {Null, Some(<<>>), Some(InvalidJson), Some(NullJson), Some(StringifyTurns(h))}

\* A request arrives at the endpoint; h is the history its sender serialized,
\* if it sent one.
DirectPost ==
  /\ reqs = EmptyBag
  /\ \E a \in AudioFields, m \in ModeFields, c \in ClinicFields, h \in Histories :
       \E t \in TurnsFields(h) :
         reqs' = One(NewRequest(Form(a, m, c, t),
                                IF t = Some(StringifyTurns(h)) THEN h ELSE <<>>))
  /\ answers' = <<>>
  /\ refusedStart' = FALSE
  /\ UNCHANGED clientVars
  /\ UNCHANGED held

\* The response leaves the endpoint; nothing of the request stays behind.
DirectDeliver ==
  /\ \E r \in InFlight : r.stage = "done"
  /\ reqs' = EmptyBag
  /\ answers' = <<>>
  /\ refusedStart' = FALSE
  /\ UNCHANGED clientVars
  /\ UNCHANGED held

InitPipeline ==
  /\ reqs = EmptyBag
  /\ clinic = Null
  /\ turns = <<>>
  /\ transcript = <<>>
  /\ isRecording = FALSE
  /\ isBusy = FALSE
  /\ error = Null
  /\ mediaRecorderRef = 0
  /\ chunksRef = <<>>
  /\ recorders = <<>>
  /\ acquiring = <<>>
  /\ playing = 0
  /\ route = "train"
  /\ micSupported = TRUE
  /\ searchMode = Null
  /\ captures = 0
  /\ successes = 0
  /\ answers = <<>>
  /\ refusedStart = FALSE
  /\ held = FALSE

NextPipeline ==
  \/ DirectPost
  \/ ServerTraced
  \/ DirectDeliver

SpecPipeline == InitPipeline /\ [][NextPipeline]_vars

\* ------------------------------------------------------------ claims

Done(r) == r.stage = "done"
Succeeded(r) == Done(r) /\ r.resp[1].status = 200
StaffTurn(text) == [role |-> "staff", text |-> text]
PatientTurn(text) == [role |-> "patient", text |-> text]

\* C1: a successful invocation returns the input history h, unchanged, followed by
\* one staff turn holding the trimmed transcription (the returned staffText) and
\* one patient turn holding the returned patientText: len(h) + 2 turns.
C1_TurnsAreHistoryPlusTwo ==
  \A r \in InFlight :
    Succeeded(r) =>
      LET h == r.clientTurns
          resp == r.resp[1]
      IN  /\ resp.staffText = Some(Trim(answers[1].text))
          /\ resp.turns = Some(h \o <<StaffTurn(Trim(answers[1].text))>>
                                 \o <<PatientTurn(resp.patientText[1])>>)
          /\ Len(resp.turns[1]) = Len(h) + 2
          /\ SubSeq(resp.turns[1], 1, Len(h)) = h

\* A success on a history of two patient turns, with a transcription that
\* needed trimming.
C1_Witness ==
  \E r \in InFlight :
    /\ Succeeded(r)
    /\ Len(r.clientTurns) = 2
    /\ r.clientTurns[1].role = "patient" /\ r.clientTurns[2].role = "patient"
    /\ answers[1].text = <<" ", "a", " ">>

\* C5: when a service call fails, the response is the 500 "Server error" response,
\* the same for every stage, and has no staffText, patientText, audio or turns.
C5_StageFailureIsOpaque ==
  \A r \in InFlight :
    (\E i \in 1..Len(answers) : ~answers[i].ok) =>
      /\ Done(r)
      /\ r.resp[1] = [status |-> 500, error |-> Some("Server error"),
                      staffText |-> Null, patientText |-> Null,
                      audioBase64 |-> Null, turns |-> Null]

\* The synthesis failed after the transcription and the reply had succeeded.
C5_Witness ==
  \E r \in InFlight :
    /\ Len(answers) = 3
    /\ answers[1].ok /\ answers[2].ok /\ ~answers[3].ok
    /\ r.resp[1].status = 500
    /\ r.staffText # Null /\ r.patientText # Null

\* C7: a request whose turns or clinicConfig field is present and not parseable
\* is answered with a client-error status.
C7_InvalidJsonIsClientError ==
  \A r \in InFlight :
    ( /\ Done(r)
      /\ r.form.clinicConfig = Some(InvalidJson) \/ r.form.turns = Some(InvalidJson) )
    => (r.resp[1].status >= 400 /\ r.resp[1].status <= 499)

Lacks(form) == IsNull(form.audio) \/ IsNull(form.clinicConfig) \/ IsNull(form.turns)

\* C8: a request lacking audio, clinicConfig or turns is answered with status 400
\* and a message, and no service is called for it.
C8_MissingFieldIsClientError ==
  \A r \in InFlight :
    Lacks(r.form) =>
      /\ r.log = <<>> /\ answers = <<>>
      /\ r.stage \in {"sent", "done"}
      /\ Done(r) => /\ r.resp[1].status = 400
                    /\ r.resp[1].error = Some("Missing audio, clinicConfig, or turns")
                    /\ r.resp[1].turns = Null

\* A request with audio and a valid clinicConfig and no turns field was answered.
C8_Witness ==
  \E r \in InFlight :
    /\ Done(r)
    /\ IsNull(r.form.turns) /\ ~IsNull(r.form.audio)
    /\ r.form.clinicConfig \in {Some(StringifyClinic(c)) : c \in ClinicConfig}
    /\ r.resp[1].status = 400

\* C9: for a mode that is none of easy, challenging, skeptical, creepy the system
\* instruction of the chat request is the one built for mode easy.
C9_UnknownModeIsEasy ==
  \A r \in InFlight :
    ( /\ Len(r.log) >= 2
      /\ ~IsNull(r.form.mode) /\ r.form.mode[1] \notin ModeId )
    => \E c \in ClinicConfig :
         /\ r.form.clinicConfig = Some(StringifyClinic(c))
         /\ r.log[2].messages[1].content = buildPatientSystemPrompt(c, "easy")

\* C2: at most one request to /api/voice-turn is in flight at any time.
C2_AtMostOneInFlight == BagCardinality(reqs) <= 1

\* C3: every request carries, as its turns field, the history the page held when
\* the request was sent.
C3_RequestCarriesCurrentHistory ==
  \A r \in InFlight : r.form.turns = Some(StringifyTurns(r.clientTurns))

\* C4: after n successful invocations the history of the page has 2n entries.
C4_TwoEntriesPerSuccess == Len(turns) = 2 * successes

\* C6: when a call fails (the fetch rejects, the status is not ok, the body cannot
\* be read), the step that handles the failure leaves turns and transcript as they
\* were, sets an error message and clears isBusy, so that the busy guard lets
\* the next begin-capture through.
C6_FailedCallLeavesHistory ==
  [][ (FetchRejects \/ ResponseFails) =>
        /\ turns' = turns
        /\ transcript' = transcript
        /\ error' \in {Some(ErrServer), Some(ErrNetwork)}
        /\ ~isBusy'
        /\ ~StartRefused' ]_vars

\* A call failed after an earlier one had succeeded: the two turns are still
\* there, the message is shown and the page is not busy.
C6_Witness ==
  /\ error = Some(ErrServer)
  /\ ~isBusy
  /\ Len(turns) = 2 /\ transcript = rebuildTranscript(turns)
  /\ successes = 1
  /\ reqs = EmptyBag

\* C10: a begin-capture while isBusy changes nothing: no recorder is started, and
\* the buffer, the history, the error message, the flags and the requests in
\* flight stay as they are.
C10_BeginWhileBusyIsNoOp ==
  [][ (isBusy /\ handleStartTalking) =>
        /\ refusedStart' = TRUE
        /\ UNCHANGED <<reqs, clientVars>> ]_vars

\* A begin-capture was refused while a request was in flight.
C10_Witness ==
  /\ refusedStart
  /\ isBusy
  /\ BagCardinality(reqs) = 1

\* C11: while the page has no clinic configuration, a begin-capture sends the
\* user to the setup page with the message shown, and the page is never recording,
\* never calls getUserMedia, never holds a recorder and never sends a request.
C11_NoClinicRefusesCapture ==
  [][ IsNull(clinic) =>
        /\ handleStartTalking => (route' = "setup" /\ error' = Some(ErrNoClinic))
        /\ ~isRecording' /\ ~isBusy'
        /\ acquiring' = <<>> /\ recorders' = <<>> /\ mediaRecorderRef' = 0
        /\ reqs' = EmptyBag ]_vars

\* A begin-capture on a page without a clinic configuration ended on the setup page.
C11_Witness ==
  /\ IsNull(clinic)
  /\ captures = 1
  /\ route = "setup"
  /\ error = Some(ErrNoClinic)

\* The reply of the chat service has no candidate, a null content, or a content
\* that is empty or made of whitespace only.
BlankReply(choices) ==
  IF choices = <<>> THEN TRUE
  ELSE IF choices[1].content = Null THEN TRUE
  ELSE \A i \in 1..Len(choices[1].content[1]) : choices[1].content[1][i] = " "

\* C12: when the chat service answers with no candidate, a null content, an empty
\* content or a whitespace-only content, patientText is "Okay, go ahead."; the
\* patientText of every success, which is also the text of the last turn, a
\* patient turn, is not the empty string.
C12_EmptyReplyIsFiller ==
  \A r \in InFlight :
    (Len(answers) >= 2 /\ answers[2].ok) =>
      /\ BlankReply(answers[2].choices) =>
           r.patientText = Some(<<"O", "k", "a", "y", ",", " ", "g", "o", " ",
                                  "a", "h", "e", "a", "d", ".">>)
      /\ r.patientText # Null /\ r.patientText[1] # <<>>
      /\ Succeeded(r) =>
           LET resp == r.resp[1]
           IN  /\ resp.patientText = r.patientText
               /\ resp.turns[1][Len(resp.turns[1])] = PatientTurn(r.patientText[1])

\* A success whose reply content was whitespace only.
C12_Witness ==
  \E r \in InFlight :
    /\ Succeeded(r)
    /\ answers[2].choices = <<[content |-> Some(<<" ">>)]>>
    /\ r.resp[1].patientText = Some(Filler)

\* The position of a part in a text it occurs in.
IndexOf(text, part) == CHOOSE i \in 1..Len(text) : text[i] = part

\* The phrases of the services a clinic offers, in the order decompression,
\* Class IV laser, shockwave.
ServicePhrases(services) ==
  LET all == <<[on |-> services.decompression, phrase |-> ", decompression"],
               [on |-> services.classIVLaser, phrase |-> ", Class IV laser"],
               [on |-> services.shockwave, phrase |-> ", shockwave"]>>
      offered == SelectSeq(all, LAMBDA x : x.on)
  IN  [i \in 1..Len(offered) |-> offered[i].phrase]

\* C13: in the system instruction of the chat request, what stands between
\* "- Services: chiropractic" and "Mode: " is the phrases of the flags that are
\* true, each once, in the order decompression, Class IV laser, shockwave, and no
\* phrase of a flag that is false occurs anywhere; the first visit cost follows
\* a "$".
C13_ServicePhrasesFollowFlags ==
  \A r \in InFlight : \A c \in ClinicConfig :
    (Len(r.log) >= 2 /\ r.form.clinicConfig = Some(StringifyClinic(c))) =>
      LET prompt == r.log[2].messages[1].content
          from == IndexOf(prompt, "- Services: chiropractic")
          to == IndexOf(prompt, "Mode: ")
          price == IndexOf(prompt, "- First visit cost: $")
      IN  /\ SubSeq(prompt, from + 1, to - 1) = ServicePhrases(c.services)
          /\ \A i \in (1..Len(prompt)) \ (from + 1 .. to - 1) :
                prompt[i] \notin {", decompression", ", Class IV laser", ", shockwave"}
          /\ prompt[price + 1] = (IF c.firstVisitCost = 75 THEN "75" ELSE "0")

\* The chat request for a clinic with decompression and shockwave, no laser, and
\* a first visit cost of 75.
C13_Witness ==
  \E r \in InFlight :
    /\ Len(r.log) >= 2
    /\ r.log[2].messages[1].content
         = buildPatientSystemPrompt([clinicName |-> "Clinic", doctorName |-> "DrA",
              firstVisitCost |-> 75, address |-> "Addr", officeHours |-> "Hours",
              services |-> [decompression |-> TRUE, classIVLaser |-> FALSE,
                            shockwave |-> TRUE]], "easy")

\* C14: when every fetch and every audio.play() settles, a page that is busy is
\* later not busy, and its busy guard then lets a begin-capture through; the step
\* that clears isBusy follows a failure, whose message it leaves set, or a success,
\* whose returned turns the page then holds.
C14_BusyEndsIdle ==
  /\ isBusy ~> (~isBusy /\ ~StartRefused)
  /\ [][ (isBusy /\ ~isBusy') =>
           \/ error' \in {Some(ErrServer), Some(ErrNetwork)}
           \/ successes' >= 1 /\ Len(turns') >= 2
                /\ transcript' = rebuildTranscript(turns') ]_vars

\* The page is idle again after a call that succeeded and whose audio was played.
C14_Witness ==
  /\ ~isBusy
  /\ successes = 1
  /\ Len(turns) = 2
  /\ playing = 0
  /\ reqs = EmptyBag
  /\ error = Null

ServiceOrder == <<"transcription", "chat", "speech">>

\* C15: the calls of one invocation are a prefix of transcription, chat, speech,
\* each made once; a call is made only after the one before it was answered
\* successfully, and none is made after a failed one.  The chat request carries,
\* after the system message, the input history followed by the new staff turn;
\* the speech request carries the patientText that the response returns.
C15_ServicesInOrder ==
  \A r \in InFlight :
    /\ Len(r.log) <= 3 /\ Len(answers) <= Len(r.log)
    /\ \A i \in 1..Len(r.log) : r.log[i].svc = ServiceOrder[i]
    /\ \A i \in 1..Len(answers) : answers[i].svc = ServiceOrder[i]
    /\ \A i \in 2..Len(r.log) : Len(answers) >= i - 1 /\ answers[i - 1].ok
    /\ \A i \in 1..Len(answers) : ~answers[i].ok => (Len(r.log) = i /\ Len(answers) = i)
    /\ Len(r.log) >= 2 =>
         LET sent == r.clientTurns \o <<StaffTurn(Trim(answers[1].text))>>
         IN  Tail(r.log[2].messages) =
               [i \in 1..Len(sent) |->
                  [role |-> IF sent[i].role = "staff" THEN "user" ELSE "assistant",
                   content |-> sent[i].text]]
    /\ Len(r.log) = 3 =>
         /\ r.patientText = Some(r.log[3].input)
         /\ Succeeded(r) => r.resp[1].patientText = Some(r.log[3].input)

\* An invocation on a history of two turns made its three calls and succeeded.
C15_Witness ==
  \E r \in InFlight :
    /\ Succeeded(r)
    /\ Len(r.log) = 3 /\ Len(answers) = 3
    /\ Len(r.clientTurns) = 2

\* C16: in one session at most one recorder is ever created, and no recorder
\* other than the one mediaRecorderRef holds is recording.
C16_OneRecorderPerSession ==
  /\ Len(recorders) <= 1
  /\ \A r \in 1..Len(recorders) :
       recorders[r].state = "recording" => r = mediaRecorderRef

\* C17: the page is never recording (isRecording, or the recorder it holds in
\* state "recording") while it is busy (isBusy).
C17_RecordingExcludesBusy ==
  isBusy =>
    /\ ~isRecording
    /\ mediaRecorderRef # 0 => recorders[mediaRecorderRef].state # "recording"

\* C18: the turns the page holds are none, or staff and patient turns in
\* alternation, the first a staff turn and the last a patient turn.
C18_HistoryAlternates ==
  /\ Len(turns) % 2 = 0
  /\ \A i \in 1..Len(turns) :
       turns[i].role = (IF i % 2 = 1 THEN "staff" ELSE "patient")

\* A call failed on the network after an earlier call had succeeded.
C18_Witness ==
  /\ turns = <<StaffTurn(<<"a">>), PatientTurn(<<"a">>)>>
  /\ error = Some(ErrNetwork)
  /\ successes = 1

\* C19: in a browser without navigator.mediaDevices the page never records, never
\* calls getUserMedia, holds no recorder, sends no request and keeps its empty
\* history, and a begin-capture shows the message.  When getUserMedia rejects, the
\* step that handles it shows the message and changes neither isRecording, the
\* recorders, the requests in flight nor the history.  A begin-capture made while
\* the page holds no recorder calls getUserMedia (again).
C19_DeviceFailureStaysLocal ==
  /\ [](~micSupported =>
          /\ ~isRecording /\ ~isBusy
          /\ acquiring = <<>> /\ recorders = <<>> /\ mediaRecorderRef = 0
          /\ reqs = EmptyBag /\ turns = <<>>)
  /\ [][ (~micSupported /\ ~IsNull(clinic) /\ handleStartTalking) =>
           error' = Some(ErrNoMic) ]_vars
  /\ [][ AcquireRejects =>
           /\ error' = Some(ErrMicAccess)
           /\ UNCHANGED <<isRecording, isBusy, mediaRecorderRef, recorders, reqs,
                          turns, transcript>> ]_vars
  /\ [][ (micSupported /\ ~IsNull(clinic) /\ ~isBusy /\ mediaRecorderRef = 0
           /\ handleStartTalking) =>
           Len(acquiring') = Len(acquiring) + 1 ]_vars

\* getUserMedia rejected: the message is shown and the page is idle with no
\* recorder and no request.
C19_Witness ==
  /\ error = Some(ErrMicAccess)
  /\ ~isRecording /\ ~isBusy
  /\ mediaRecorderRef = 0 /\ recorders = <<>>
  /\ acquiring = <<>>
  /\ reqs = EmptyBag

\* The page shows recording and the recorder it holds is recording.
Recording ==
  /\ isRecording
  /\ mediaRecorderRef # 0
  /\ recorders[mediaRecorderRef].state = "recording"

\* The stop events of the recorders that are still to be delivered; each runs
\* onstop, which sends the buffer.
PendingStops(recs) ==
  LET RECURSIVE Sum(_)
      Sum(i) == IF i = 0 THEN 0 ELSE recs[i].stopTasks + Sum(i - 1)
  IN  Sum(Len(recs))

\* C20: a user action that takes the page out of recording back to idle leaves
\* no submission of that capture behind: no stop event is pending whose onstop
\* would send the buffer, and no request was sent.
C20_StopDiscardsCapture ==
  [][ (Recording /\ (handleStopTalking \/ handleStartTalking) /\ ~Recording') =>
        /\ PendingStops(recorders') = PendingStops(recorders)
        /\ reqs' = reqs ]_vars

\* C20 as amended: every user action that takes the page out of recording queues
\* one stop event of the recorder, and every stop event delivered sends one
\* request with the buffer: no capture that was recording is discarded.
C20_EveryStopSubmits ==
  /\ [][ (Recording /\ (handleStopTalking \/ handleStartTalking) /\ ~Recording') =>
           PendingStops(recorders') = PendingStops(recorders) + 1 ]_vars
  /\ [][ RecorderStops =>
           /\ PendingStops(recorders') = PendingStops(recorders) - 1
           /\ BagCardinality(reqs') = BagCardinality(reqs) + 1 ]_vars

\* The user ended the first capture and its buffer is on its way to the endpoint.
C20_Witness ==
  /\ captures = 1
  /\ ~isRecording /\ isBusy
  /\ PendingStops(recorders) = 0
  /\ \E r \in InFlight : r.stage = "sent" /\ r.form.audio = Some(<<1>>)

\* C21: while the user does not hold the mic button (it was released, or never
\* pressed), the page is not recording: isRecording is false and the recorder
\* the page holds is not recording.
C21_NoCaptureAfterRelease ==
  ~held =>
    /\ ~isRecording
    /\ mediaRecorderRef # 0 => recorders[mediaRecorderRef].state # "recording"

====
